---- MODULE Spec2Model ----
(***************************************************************************)
(* A model of bevy_koto's script/host bridge: the script runtime            *)
(* (KotoRuntime), the four-phase KotoSchedule, the KotoEntity records with  *)
(* their KotoEntityMapping cells, the Koto -> Bevy channels and the         *)
(* per-entity update dispatcher (update_koto_entities).                     *)
(*                                                                         *)
(* A script is an input of the model.  Each script call (top-level code,   *)
(* setup, on_load, update, on_window_size, an entity's on_update callback) *)
(* performs a bounded sequence of host-visible operations (create a shape, *)
(* drop the last script reference to one, call on_update()/despawn() on    *)
(* one) and then returns or raises an error.                               *)
(*                                                                         *)
(* Four specifications share the actions.  SpecLifecycle runs scripts of   *)
(* every shape (any exports, any call failing) that create no object; Spec *)
(* runs scripts that create and release objects, export update alone and   *)
(* may fail to compile, to run or in update; SpecCallbacks loads one such  *)
(* script that compiles and runs, lets it create more objects, lets the    *)
(* on_update callbacks raise errors, and keeps a history of what each      *)
(* phase sent; SpecAssets loads scripts that import modules, several in a  *)
(* frame, and follows the script timer, the asset events and the handle    *)
(* and the dependencies of the active script.                              *)
(***************************************************************************)
EXTENDS Integers, Sequences, FiniteSets, TLC

\* ------------------------------------------------------------------ bounds
MaxObj == 1          \* script objects (shapes) created over a run
MaxOps == 2          \* host-visible operations performed by the script calls of one frame
MaxLoadQueue == 1    \* LoadScript events written between two Compile phases
MaxSiblings == 2     \* script objects created over a run of SpecCallbacks
MaxAssetLoads == 2   \* LoadScript events written between two Compile phases in SpecAssets
MaxTime == 2         \* the script timer's elapsed time, in ticks
MaxAssetEvents == 1  \* AssetEvent<KotoScript> events read in one frame

\* --------------------------------------------------------------- constants
PLACEHOLDER == 0     \* Entity::PLACEHOLDER
NoScript == 0        \* ActiveScript::script == None
FnNames == {"setup", "on_load", "update", "on_window_size"}
UserValues == {"U1", "U2"}           \* values a script's setup() may return

VARIABLES
    \* KotoRuntime
    is_ready,            \* KotoRuntime::is_ready
    user_data,           \* KotoRuntime::user_data
    exports,             \* the names in runtime.exports()
    \* Bevy events
    load_script_events,  \* Events<LoadScript> not yet read by the Compile phase
    script_loaded,       \* ScriptLoaded events written in this frame
    \* the scripts given to the model
    family,              \* "lifecycle": any script, none touching an entity;
                         \* "entities": scripts that export update alone;
                         \* "callbacks": one such script, loaded once;
                         \* "assets": scripts that import modules
    ops_left,            \* operations the script calls of this frame may still perform
    \* script objects and the Koto -> Bevy bridge
    next_obj,            \* the next script object to be created
    held,                \* held[o]: where the script's reference to object o lives:
                         \* in the exports map, in a closure (such as an on_update
                         \* callback that captures o), or nowhere ("none")
    bevy_entity,         \* bevy_entity[o]: the cell of o's KotoEntityMapping
    spawn_channel,       \* KotoReceiver<SpawnShape>
    entity_channel,      \* KotoEntityReceiver<UpdateKotoEntity>
    records,             \* the KotoEntity components in the world, by entity
    commands,            \* Commands queued until the next sync point
    \* schedule position
    phase,               \* the phase of the frame that is running
    done,                \* systems of the current phase that have run
    todo,                \* records update_koto_entities' par_iter has yet to visit
    panicked,            \* a system panicked: the app is gone
    \* history
    last,                \* what the most recent step did
    invoked,             \* entities whose on_update ran in this frame
    last_load,           \* how the most recent initialize_script ended
    call_error,          \* run_exported_function returned an error since then
    update_error,        \* update() raised and no load has succeeded since
    marked,              \* entities update_koto_entities requested a despawn for, this frame
    doomed,              \* records that existed when a reset load succeeded, this frame
    released,            \* objects whose script reference a load that failed, or a hot
                         \* reload, released in this frame
    \* history kept in SpecCallbacks
    marks,               \* what had been created and sent when the phase / frame began
    calls,               \* calls[o]: on_update calls with receiver o in this frame
    errored,             \* entities whose on_update raised an error in this frame
    \* the active script's assets and the script timer, followed in SpecAssets
    dep_channel,         \* KotoReceiver<AddDependency>
    dependencies,        \* the paths whose handles ActiveScript::dependencies holds
    active_script,       \* ActiveScript::script: the handle of the script that was
                         \* loaded last, or NoScript
    elapsed,             \* KotoTime's timer: the elapsed time
    delta,               \* KotoTime's delta field
    asset_hist           \* AddDependency events sent and received in this frame, and
                         \* the imports of the load that last succeeded in it

Objects == 1..(IF family = "callbacks" THEN MaxSiblings ELSE MaxObj)

runtimeVars == <<is_ready, user_data, exports>>
eventVars == <<load_script_events, script_loaded>>
scriptVars == <<ops_left, next_obj, held, spawn_channel, entity_channel>>
worldVars == <<bevy_entity, records, commands>>
schedVars == <<phase, done, todo, panicked>>
histVars == <<last, invoked, last_load, call_error, update_error, marked, doomed, released>>
ghostVars == <<marks, calls, errored>>
assetVars == <<dep_channel, dependencies, active_script, elapsed, delta, asset_hist>>
vars == <<family, runtimeVars, eventVars, scriptVars, worldVars, schedVars, histVars,
          ghostVars, assetVars>>

\* ------------------------------------------------------------ script calls
\* One host-visible operation of a script call.
\* The scripts that create objects export no setup and keep none in user_data.
\* The script of SpecCallbacks is loaded once: where it keeps a reference makes
\* no difference, and it keeps them in closures.
Places == IF family = "callbacks" THEN {"closure"} ELSE {"exports", "closure"}

\* What a script does with an object it holds.  The script of SpecCallbacks
\* does not call despawn().
Methods == IF family = "callbacks" THEN {"drop", "on_update"}
           ELSE {"drop", "on_update", "despawn"}

Ops == [op : {"create"}, obj : {0}, place : Places]
       \cup [op : Methods, obj : Objects, place : {"none"}]

\* The part of the state a script call can touch.
ScriptState == [ops_left |-> ops_left, next_obj |-> next_obj, held |-> held,
                spawn_channel |-> spawn_channel, entity_channel |-> entity_channel]

\* make_shape sending its SpawnShape event twice.
make_shape_sends_twice(st, place) ==
    [st EXCEPT !.next_obj = @ + 1,
               !.held[st.next_obj] = place,
               !.spawn_channel = Append(Append(@, st.next_obj), st.next_obj)]

\* make_shape: a new object with a placeholder mapping; the SpawnShape event
\* holds a KotoEntity (a second reference to the object and a clone of the
\* mapping).  The script keeps the object it gets back in the given place.
make_shape(st, place) ==
    [st EXCEPT !.next_obj = @ + 1,
               !.held[st.next_obj] = place,
               !.spawn_channel = Append(@, st.next_obj)]

\* KotoShape::on_update / KotoShape::despawn: one event on the entity channel.
shape_on_update(st, o) ==
    [st EXCEPT !.entity_channel = Append(@, [entity |-> o, event |-> "SetOnUpdate"])]

\* KotoShape::despawn applying the despawn to the spawn channel as well.
shape_despawn_unsends(st, o) ==
    [st EXCEPT !.entity_channel = Append(@, [entity |-> o, event |-> "Despawn"]),
               !.spawn_channel = SelectSeq(@, LAMBDA x : x # o)]

shape_despawn(st, o) ==
    [st EXCEPT !.entity_channel = Append(@, [entity |-> o, event |-> "Despawn"])]

OpEnabled(st, op) ==
    /\ st.ops_left > 0
    /\ IF op.op = "create" THEN st.next_obj \in Objects
       ELSE op.obj < st.next_obj /\ st.held[op.obj] # "none"

ApplyOp(st, op) ==
    LET s == [st EXCEPT !.ops_left = @ - 1]
    IN  CASE op.op = "create" -> make_shape(s, op.place)
          [] op.op = "drop" -> [s EXCEPT !.held[op.obj] = "none"]
          [] op.op = "on_update" -> shape_on_update(s, op.obj)
          [] op.op = "despawn" -> shape_despawn(s, op.obj)

\* The states a script call can leave behind: it performs some sequence of
\* operations, as long as the frame's budget lasts.
RECURSIVE AfterCall(_)
AfterCall(st) ==
    {st} \cup UNION {AfterCall(ApplyOp(st, op)) : op \in {x \in Ops : OpEnabled(st, x)}}

SetScriptState(st) ==
    /\ ops_left' = st.ops_left
    /\ next_obj' = st.next_obj
    /\ held' = st.held
    /\ spawn_channel' = st.spawn_channel
    /\ entity_channel' = st.entity_channel

\* A script call takes place.
ScriptCall == \E st \in AfterCall(ScriptState) : SetScriptState(st)

\* ----------------------------------------------------------- KotoRuntime
Runtime == [is_ready |-> is_ready, user_data |-> user_data, exports |-> exports,
            held |-> held]

\* The references kept in a place are released when the place is cleared.
release(h, place) == [o \in DOMAIN h |-> IF h[o] = place THEN "none" ELSE h[o]]

\* What a script does when it is loaded: whether it compiles, whether its
\* top-level code runs to the end, the names it has exported by then, and how
\* its setup and on_load behave if they get called.
ScriptBehaviours ==
    {s \in [compiles : BOOLEAN, runs : BOOLEAN, exports : SUBSET FnNames,
            setup_ok : BOOLEAN, setup_value : UserValues, on_load_ok : BOOLEAN] :
        /\ (~s.compiles => s.runs /\ s.exports = {})
        /\ (~(s.compiles /\ s.runs) => s.setup_ok /\ s.on_load_ok)
        /\ (~(s.compiles /\ s.runs /\ s.setup_ok /\ "setup" \in s.exports)
                => s.setup_value = "U1")}

\* The scripts of the "entities" family export update and nothing else.
ExportingUpdate == {s \in ScriptBehaviours :
                       /\ s.compiles => s.exports = {"update"}
                       /\ s.setup_ok /\ s.on_load_ok /\ s.setup_value = "U1"}

\* The script of the "callbacks" family is one of these that compiles and runs.
CompilingAndRunning == {s \in ExportingUpdate : s.compiles /\ s.runs}

Scripts == CASE family = "lifecycle" -> ScriptBehaviours
             [] family = "entities" -> ExportingUpdate
             [] family = "callbacks" -> CompilingAndRunning
             [] family = "assets" -> ExportingUpdate
FrameOps == IF family \in {"lifecycle", "assets"} THEN 0 ELSE MaxOps

\* How a call of an exported function may end (TRUE: it returns, FALSE: it
\* raises an error).
CallOutcomes == IF family \in {"lifecycle", "entities"} THEN BOOLEAN ELSE {TRUE}

\* The module paths a script may import: one inside the assets folder, one
\* outside it.  The scripts of the "assets" family import any of them.
Modules == {1, 2}
InAssets(path) == path = 1
Imports == IF family = "assets" THEN SUBSET Modules ELSE {{}}

\* The handles of the scripts an application loads.  A module's asset is
\* identified by its path, a script's by its handle.
MainScripts == IF family = "assets" THEN {3, 4} ELSE {3}
AssetIds == Modules \cup MainScripts

\* How a call of an entity's on_update callback may end.  The callbacks of
\* the "callbacks" family may raise.
CallbackOutcomes == IF family = "callbacks" THEN BOOLEAN ELSE {TRUE}

\* KotoRuntime::run_exported_function: Ok(None) if the name is not exported;
\* a call error clears is_ready.
NotCalled(rt) == [rt |-> rt, called |-> FALSE, err |-> FALSE]

\* A variant that treats a name that is not exported as a call error.
fault_on_missing(rt, function_name, call_ok) ==
    IF function_name \notin rt.exports
    THEN [rt |-> [rt EXCEPT !.is_ready = FALSE], called |-> FALSE, err |-> TRUE]
    ELSE IF call_ok THEN [rt |-> rt, called |-> TRUE, err |-> FALSE]
    ELSE [rt |-> [rt EXCEPT !.is_ready = FALSE], called |-> TRUE, err |-> TRUE]

\* A variant that returns the error and leaves is_ready alone.
call_without_fault(rt, function_name, call_ok) ==
    IF function_name \notin rt.exports THEN NotCalled(rt)
    ELSE [rt |-> rt, called |-> TRUE, err |-> ~call_ok]

run_exported_function(rt, function_name, call_ok) ==
    IF function_name \notin rt.exports THEN NotCalled(rt)
    ELSE IF call_ok THEN [rt |-> rt, called |-> TRUE, err |-> FALSE]
    ELSE [rt |-> [rt EXCEPT !.is_ready = FALSE], called |-> TRUE, err |-> TRUE]

LoadResult(rt, result, setup_called, on_load_arg) ==
    [rt |-> rt, result |-> result, setup_called |-> setup_called,
     on_load_arg |-> on_load_arg]

\* A variant of the first statement that leaves is_ready alone.
keep_ready(rt) == rt

\* A variant of the setup step that ignores call_setup.
run_setup_always(rt, s, call_setup) ==
    LET su == run_exported_function(rt, "setup", s.setup_ok)
    IN  IF su.err THEN su
        ELSE [su EXCEPT !.rt.user_data = IF su.called THEN s.setup_value ELSE "EmptyMap"]

\* initialize_script, its first statement: the runtime is not ready while a
\* load is under way.
begin_load(rt) == [rt EXCEPT !.is_ready = FALSE]

\* A variant of the setup step that keeps the old user_data when the script
\* exports no setup.
run_setup_keeps_data(rt, s, call_setup) ==
    IF ~call_setup THEN NotCalled(rt)
    ELSE LET su == run_exported_function(rt, "setup", s.setup_ok)
         IN  IF su.err THEN su
             ELSE [su EXCEPT !.rt.user_data =
                      IF su.called THEN s.setup_value ELSE rt.user_data]

\* initialize_script, the setup step: with call_setup, user_data becomes the
\* value setup returns, or an empty map if the script exports no setup.
run_setup(rt, s, call_setup) ==
    IF ~call_setup THEN NotCalled(rt)
    ELSE LET su == run_exported_function(rt, "setup", s.setup_ok)
         IN  IF su.err THEN su
             ELSE [su EXCEPT !.rt.user_data =
                      IF su.called THEN s.setup_value ELSE "EmptyMap"]

\* initialize_script clearing the exports of a fresh load before it compiles.
initialize_script_clears_first(rt, s, call_setup) ==
    LET r0 == begin_load(rt)
        r1 == IF call_setup
              THEN [r0 EXCEPT !.exports = {}, !.held = release(@, "exports")]
              ELSE r0
    IN  IF ~s.compiles THEN LoadResult(r1, "compile_err", FALSE, "none")
        ELSE
        LET r2 == [r1 EXCEPT !.exports = @ \cup s.exports]
        IN  IF ~s.runs THEN LoadResult(r2, "run_err", FALSE, "none")
            ELSE
            LET su == run_setup(r2, s, call_setup)
            IN  IF su.err THEN LoadResult(su.rt, "setup_err", TRUE, "none")
                ELSE
                LET ol == run_exported_function(su.rt, "on_load", s.on_load_ok)
                    arg == IF ol.called THEN su.rt.user_data ELSE "none"
                IN  IF ol.err THEN LoadResult(ol.rt, "on_load_err", su.called, arg)
                    ELSE LoadResult([ol.rt EXCEPT !.is_ready = TRUE], "ok",
                                    su.called, arg)

\* initialize_script with on_load invoked straight after the top-level run,
\* before setup.
initialize_script_on_load_first(rt, s, call_setup) ==
    LET r0 == begin_load(rt)
    IN  IF ~s.compiles THEN LoadResult(r0, "compile_err", FALSE, "none")
        ELSE
        LET r1 == IF call_setup
                  THEN [r0 EXCEPT !.exports = {}, !.held = release(@, "exports")]
                  ELSE r0
            r2 == [r1 EXCEPT !.exports = @ \cup s.exports]
        IN  IF ~s.runs THEN LoadResult(r2, "run_err", FALSE, "none")
            ELSE
            LET ol == run_exported_function(r2, "on_load", s.on_load_ok)
                arg == IF ol.called THEN r2.user_data ELSE "none"
            IN  IF ol.err THEN LoadResult(ol.rt, "on_load_err", FALSE, arg)
                ELSE
                LET su == run_setup(ol.rt, s, call_setup)
                IN  IF su.err THEN LoadResult(su.rt, "setup_err", TRUE, arg)
                    ELSE LoadResult([su.rt EXCEPT !.is_ready = TRUE], "ok",
                                    su.called, arg)

\* KotoRuntime::initialize_script
initialize_script(rt, s, call_setup) ==
    LET r0 == begin_load(rt)
    IN  IF ~s.compiles THEN LoadResult(r0, "compile_err", FALSE, "none")
        ELSE
        LET r1 == IF call_setup                               \* exports_mut().clear()
                  THEN [r0 EXCEPT !.exports = {}, !.held = release(@, "exports")]
                  ELSE r0
            r2 == [r1 EXCEPT !.exports = @ \cup s.exports]     \* runtime.run(chunk)
        IN  IF ~s.runs THEN LoadResult(r2, "run_err", FALSE, "none")
            ELSE
            LET su == run_setup(r2, s, call_setup)
            IN  IF su.err THEN LoadResult(su.rt, "setup_err", TRUE, "none")
                ELSE
                LET ol == run_exported_function(su.rt, "on_load", s.on_load_ok)
                    arg == IF ol.called THEN su.rt.user_data ELSE "none"
                IN  IF ol.err THEN LoadResult(ol.rt, "on_load_err", su.called, arg)
                    ELSE LoadResult([ol.rt EXCEPT !.is_ready = TRUE], "ok",
                                    su.called, arg)

\* ------------------------------------------------------------- the world
\* A record that starts out inactive.
NewRecord_inactive(o) == [object |-> o, on_update |-> FALSE, is_active |-> FALSE]

\* KotoEntity::new
NewRecord(o) == [object |-> o, on_update |-> FALSE, is_active |-> TRUE]

Count(s, x) == Cardinality({i \in DOMAIN s : s[i] = x})

\* KObject::ref_count of object o: the script's references count as one; the
\* host holds one per queued SpawnShape event, queued spawn command and record.
ref_count(o) ==
    (IF held[o] # "none" THEN 1 ELSE 0)
    + Count(spawn_channel, o)
    + Count(commands, [cmd |-> "spawn", entity |-> o])
    + (IF o \in DOMAIN records THEN 1 ELSE 0)

\* A sync point applies the queued commands in order.  Despawning an entity
\* that does not exist changes nothing.
RECURSIVE ApplyCommands(_, _)
ApplyCommands(w, cmds) ==
    IF cmds = <<>> THEN w
    ELSE LET c == Head(cmds)
             e == c.entity
         IN  ApplyCommands(
                 IF c.cmd = "spawn"
                 THEN [w EXCEPT !.records = [x \in DOMAIN @ \cup {e} |->
                                                IF x = e THEN NewRecord(e) ELSE @[x]]]
                 ELSE IF e \in DOMAIN w.records
                 THEN [w EXCEPT !.records = [x \in DOMAIN @ \ {e} |-> @[x]]]
                 ELSE w,
                 Tail(cmds))

SyncPoint ==
    LET w == ApplyCommands([records |-> records], commands)
    IN  /\ records' = w.records
        /\ commands' = <<>>

\* The entities of a set, in ascending order (the order the query visits them).
RECURSIVE InOrder(_)
InOrder(S) ==
    IF S = {} THEN <<>>
    ELSE LET m == CHOOSE x \in S : \A y \in S : x <= y
         IN  <<m>> \o InOrder(S \ {m})

\* ------------------------------------------------------------- schedule
\* The systems of the runtime plugin that SpecAssets follows as well: the
\* script timer, and add_script_dependencies, which is registered twice.
AssetSystemsOf(p) ==
    IF family # "assets" THEN {}
    ELSE CASE p = "PreUpdate" -> {"update_script_timer"}
           [] p = "PostUpdate" -> {"add_script_dependencies"}
           [] p = "BevyUpdate" -> {"process_script_asset_events", "add_script_dependencies"}
           [] OTHER -> {}

\* spawn_shapes registered in the Update phase.
SystemsOf_spawn_in_update(p) ==
    CASE p = "Compile" -> {}
      [] p = "PreUpdate" -> {"on_script_loaded", "on_script_compiled", "on_window_resized"}
      [] p = "Update" -> {"run_script_update", "spawn_shapes"}
      [] p = "PostUpdate" -> {"update_koto_entities"}
      [] p = "BevyUpdate" -> {"koto_to_bevy_entity_events"}

\* The systems of each phase.  Compile holds process_load_script_events alone,
\* which is finished when it has read every LoadScript event.
SystemsOf(p) ==
    AssetSystemsOf(p) \cup
    CASE p = "Compile" -> {}
      [] p = "PreUpdate" -> {"on_script_loaded", "on_script_compiled", "on_window_resized"}
      [] p = "Update" -> {"run_script_update"}
      [] p = "PostUpdate" -> {"spawn_shapes", "update_koto_entities"}
      [] p = "BevyUpdate" -> {"koto_to_bevy_entity_events"}

\* The sets chained with Update ahead of PreUpdate.
NextPhase_update_first(p) ==
    CASE p = "Compile" -> "Update"
      [] p = "Update" -> "PreUpdate"
      [] p = "PreUpdate" -> "PostUpdate"
      [] p = "PostUpdate" -> "BevyUpdate"
      [] p = "BevyUpdate" -> "Compile"

\* The chained sets of the KotoSchedule, followed by Bevy's Update schedule;
\* the frame's next KotoSchedule comes after that.
NextPhase(p) ==
    CASE p = "Compile" -> "PreUpdate"
      [] p = "PreUpdate" -> "Update"
      [] p = "Update" -> "PostUpdate"
      [] p = "PostUpdate" -> "BevyUpdate"
      [] p = "BevyUpdate" -> "Compile"

CanRun(system) ==
    /\ ~panicked
    /\ system \in SystemsOf(phase)
    /\ system \notin done

\* The history of a step that called no exported function.
NoStep == [sys |-> "none", result |-> "none", reset |-> FALSE, setup_called |-> FALSE,
           on_load_arg |-> "none", called |-> FALSE, was_ready |-> FALSE,
           asset_events |-> <<>>, queued |-> 0, delta_secs |-> 0,
           window |-> FALSE]

\* The history of a phase that began before anything was created or sent.
NoMarks == [obj |-> 1, events |-> 0, frame_obj |-> 1, is_ready |-> FALSE]
NoCalls == [o \in Objects |-> 0]
NoAssetHist == [sent |-> 0, received |-> 0, loaded |-> FALSE, imports |-> {}]

InitWith(f) ==
    /\ family = f
    /\ ops_left = 0
    /\ is_ready = FALSE
    /\ user_data = "Null"
    /\ exports = {}
    /\ load_script_events = <<>>
    /\ script_loaded = 0
    /\ next_obj = 1
    /\ held = [o \in Objects |-> "none"]
    /\ bevy_entity = [o \in Objects |-> PLACEHOLDER]
    /\ spawn_channel = <<>>
    /\ entity_channel = <<>>
    /\ records = <<>>
    /\ commands = <<>>
    /\ phase = "BevyUpdate"
    /\ done = SystemsOf("BevyUpdate")
    /\ todo = {}
    /\ panicked = FALSE
    /\ last = NoStep
    /\ invoked = {}
    /\ last_load = "none"
    /\ call_error = FALSE
    /\ update_error = FALSE
    /\ marked = {}
    /\ doomed = {}
    /\ released = {}
    /\ marks = NoMarks
    /\ calls = NoCalls
    /\ errored = {}
    /\ dep_channel = <<>>
    /\ dependencies = {}
    /\ active_script = NoScript
    /\ elapsed = 0
    /\ delta = 0
    /\ asset_hist = NoAssetHist

Init == InitWith("entities")
InitLifecycle == InitWith("lifecycle")
InitCallbacks == InitWith("callbacks")
InitAssets == InitWith("assets")

\* LoadScript::load / LoadScript::reload
LoadScript_load(script) == [reset |-> TRUE, script |-> script]
LoadScript_reload(script) == [reset |-> FALSE, script |-> script]

\* An application system (or process_script_asset_events) writes a LoadScript
\* event during Bevy's Update schedule.  The families that follow entities
\* through their frames see one LoadScript event a frame; several loads in
\* one frame are the subject of the "lifecycle" and "assets" families.
LoadQueueBound == CASE family = "assets" -> MaxAssetLoads
                    [] family = "lifecycle" -> MaxLoadQueue
                    [] OTHER -> 1

send_load_script ==
    /\ ~panicked
    /\ phase = "BevyUpdate"
    /\ SystemsOf(phase) \subseteq done
    /\ Len(load_script_events) < LoadQueueBound
    /\ family = "callbacks" => last_load = "none" /\ load_script_events = <<>>
    /\ \E script \in MainScripts :
       \E event \in {LoadScript_load(script), LoadScript_reload(script)} :
          load_script_events' = Append(load_script_events, event)
    /\ last' = NoStep
    /\ UNCHANGED <<family, ghostVars, assetVars, runtimeVars, script_loaded, scriptVars, worldVars, schedVars,
                   invoked, last_load, call_error, update_error, marked, doomed, released>>

\* ScriptLoaded written for every load that succeeds.
write_script_loaded_always(n, loaded, reset) == IF loaded THEN n + 1 ELSE n

\* process_load_script_events: script_loaded.write_default() under event.reset
\* after a load that succeeded.
write_script_loaded(n, loaded, reset) == IF loaded /\ reset THEN n + 1 ELSE n

\* The KotoTime resource: its timer's elapsed time and its delta field.
KotoTime == [timer |-> elapsed, delta |-> delta]

\* KotoTime::current_time: self.timer.elapsed_secs_f64().
current_time(time) == time.timer

\* KotoTime::delta: self.timer.elapsed_secs_f64(); the delta field is not
\* read.
KotoTime_delta(time) == time.timer

\* KotoTime::set_current_time: the timer set to secs and the delta field to
\* zero.
set_current_time(time, secs) == [timer |-> secs, delta |-> 0]

\* The timer reset by every load that succeeds.
reset_koto_timer_always(t, loaded, reset) == IF loaded THEN 0 ELSE t

\* process_load_script_events: koto_timer.reset() under event.reset after a
\* load that succeeded.
reset_koto_timer(t, loaded, reset) == IF loaded /\ reset THEN 0 ELSE t

\* The handle replaced and the dependencies cleared by every load, failed
\* ones too.
set_active_script_always(active, deps, loaded, script) ==
    [script |-> script, dependencies |-> {}]

\* process_load_script_events, after a load that succeeded:
\* active_script.script = Some(event.script.clone()) and dependencies.clear().
set_active_script(active, deps, loaded, script) ==
    IF loaded THEN [script |-> script, dependencies |-> {}]
    ELSE [script |-> active, dependencies |-> deps]

\* process_load_script_events, one LoadScript event of its loop.
process_load_script_events ==
    /\ ~panicked
    /\ phase = "Compile"
    /\ load_script_events # <<>>
    /\ load_script_events' = Tail(load_script_events)
    /\ LET event == Head(load_script_events)
       IN  \/ \* assets.get(event.script.id()) is None
              /\ last' = NoStep
              /\ UNCHANGED <<assetVars, runtimeVars, script_loaded, scriptVars, last_load,
                             call_error, update_error, doomed, released>>
           \/ \E s \in Scripts, imports \in Imports :
                LET r == initialize_script(Runtime, s, event.reset)
                    loaded == r.result = "ok"
                    released_now == {o \in Objects : held[o] # "none" /\ r.rt.held[o] = "none"}
                IN  /\ IF s.compiles
                       THEN \E st \in AfterCall([ScriptState EXCEPT !.held = r.rt.held]) :
                               SetScriptState(st)
                       ELSE UNCHANGED scriptVars
                    /\ released' = IF loaded /\ event.reset THEN released
                                   ELSE released \cup released_now
                    /\ is_ready' = r.rt.is_ready
                    /\ user_data' = r.rt.user_data
                    /\ exports' = r.rt.exports
                    /\ script_loaded' = write_script_loaded(script_loaded, loaded, event.reset)
                    /\ elapsed' = reset_koto_timer(elapsed, loaded, event.reset)
                    /\ delta' = IF loaded /\ event.reset
                                THEN set_current_time(KotoTime, 0).delta ELSE delta
                    \* the module imported callback sends the paths while the chunk runs
                    /\ dep_channel' = IF s.compiles
                                      THEN dep_channel \o InOrder(imports) ELSE dep_channel
                    /\ LET a == set_active_script(active_script, dependencies, loaded,
                                                  event.script)
                       IN  /\ active_script' = IF family = "assets" THEN a.script
                                                ELSE active_script
                           /\ dependencies' = a.dependencies
                    /\ asset_hist' =
                          IF family # "assets" THEN asset_hist
                          ELSE [asset_hist EXCEPT
                                  !.sent = IF s.compiles THEN @ + Cardinality(imports) ELSE @,
                                  !.loaded = @ \/ loaded,
                                  !.imports = IF loaded THEN imports ELSE @]
                    /\ last' = [NoStep EXCEPT !.sys = "initialize_script",
                                              !.result = r.result,
                                              !.reset = event.reset,
                                              !.setup_called = r.setup_called,
                                              !.on_load_arg = r.on_load_arg,
                                              !.was_ready = is_ready]
                    /\ last_load' = IF loaded THEN "ok" ELSE "failed"
                    /\ call_error' = FALSE
                    /\ update_error' = IF loaded THEN FALSE ELSE update_error
                    /\ doomed' = IF loaded /\ event.reset
                                 THEN doomed \cup DOMAIN records ELSE doomed
    /\ UNCHANGED <<family, ghostVars, worldVars, schedVars, invoked, marked>>

\* A variant of on_script_loaded that reads the events and leaves the records
\* as they are.
on_script_loaded_keeps_active ==
    /\ CanRun("on_script_loaded")
    /\ done' = done \cup {"on_script_loaded"}
    /\ last' = NoStep
    /\ UNCHANGED <<family, ghostVars, assetVars, runtimeVars, eventVars, scriptVars, worldVars, phase,
                   todo, panicked, invoked, last_load, call_error, update_error,
                   marked, doomed, released>>

\* on_script_loaded (entity.rs): any ScriptLoaded event marks every record inactive.
on_script_loaded ==
    /\ CanRun("on_script_loaded")
    /\ records' = IF script_loaded > 0
                  THEN [e \in DOMAIN records |-> [records[e] EXCEPT !.is_active = FALSE]]
                  ELSE records
    /\ done' = done \cup {"on_script_loaded"}
    /\ last' = NoStep
    /\ UNCHANGED <<family, ghostVars, assetVars, runtimeVars, eventVars, scriptVars, bevy_entity, commands, phase,
                   todo, panicked, invoked, last_load, call_error, update_error,
                   marked, doomed, released>>

\* on_window_size called whatever the runtime's state.
run_on_window_size_unguarded(rt, call_ok) ==
    run_exported_function(rt, "on_window_size", call_ok)

\* run_on_window_size (window.rs): calls on_window_size if the runtime is ready.
run_on_window_size(rt, call_ok) ==
    IF rt.is_ready THEN run_exported_function(rt, "on_window_size", call_ok)
    ELSE NotCalled(rt)

\* A run of n guarded on_window_size calls, threading the runtime and the
\* script's state through them: the set of its possible outcomes.
WindowCalls == [rt |-> Runtime, st |-> ScriptState, called |-> FALSE, err |-> FALSE]

RECURSIVE window_size_calls(_, _)
window_size_calls(c, n) ==
    IF n = 0 THEN {c}
    ELSE UNION {
        LET r == run_on_window_size(c.rt, call_ok)
        IN  IF r.called
            THEN UNION {window_size_calls([rt |-> r.rt, st |-> st, called |-> TRUE,
                                           err |-> (c.err \/ r.err)], n - 1) :
                            st \in AfterCall(c.st)}
            ELSE IF call_ok THEN window_size_calls(c, n - 1) ELSE {}
        : call_ok \in CallOutcomes}

\* The window systems share no state with on_script_loaded (they touch the
\* runtime and the script's objects, it touches the records), so its place among
\* them makes no difference: it is taken first.
WindowSizeSystem(system, n, window) ==
    /\ "on_script_loaded" \in done
    /\ \E c \in window_size_calls(WindowCalls, n) :
           /\ is_ready' = c.rt.is_ready
           /\ SetScriptState(c.st)
           /\ call_error' = (call_error \/ c.err)
           /\ last' = LET seen == [NoStep EXCEPT !.window = (family = "lifecycle" /\ window)]
                      IN  IF c.called
                          THEN [seen EXCEPT !.sys = "on_window_size", !.called = TRUE,
                                            !.result = IF c.err THEN "err" ELSE "ok"]
                          ELSE seen
           /\ done' = done \cup {system}
           /\ UNCHANGED <<family, ghostVars, assetVars, user_data, exports, eventVars, worldVars, phase, todo,
                          panicked, invoked, last_load, update_error, marked, doomed, released>>

\* on_script_compiled (window.rs): one on_window_size call per ScriptLoaded
\* event, if there is a primary window.
on_script_compiled ==
    /\ CanRun("on_script_compiled")
    /\ \E window \in BOOLEAN :
          /\ (script_loaded = 0 => window)
          /\ WindowSizeSystem("on_script_compiled", IF window THEN script_loaded ELSE 0, window)

\* on_window_resized (window.rs): one call per WindowResized event, of which
\* there is at most one a frame.
on_window_resized ==
    /\ CanRun("on_window_resized")
    /\ \E resized \in 0..1 : WindowSizeSystem("on_window_resized", resized, FALSE)

\* KotoRuntime::run_update
run_update(rt, call_ok) == run_exported_function(rt, "update", call_ok)

\* A variant of the guard that lets update run whatever the runtime's state.
always_update(rt) == TRUE

\* run_script_update: calls run_update if the runtime is ready.
ShouldRunUpdate(rt) == rt.is_ready

run_script_update ==
    /\ CanRun("run_script_update")
    /\ \E call_ok \in CallOutcomes :
          LET r == IF ShouldRunUpdate(Runtime) THEN run_update(Runtime, call_ok)
                   ELSE NotCalled(Runtime)
          IN  /\ IF r.called THEN ScriptCall
                 ELSE call_ok /\ UNCHANGED scriptVars
              /\ is_ready' = r.rt.is_ready
              /\ call_error' = (call_error \/ r.err)
              /\ update_error' = (update_error \/ r.err)
              /\ last' = [NoStep EXCEPT !.sys = "run_script_update",
                                        !.called = r.called,
                                        !.was_ready = is_ready,
                                        !.result = IF r.err THEN "err"
                                                   ELSE IF r.called THEN "ok" ELSE "none"]
    /\ done' = done \cup {"run_script_update"}
    /\ UNCHANGED <<family, ghostVars, assetVars, user_data, exports, eventVars, worldVars, phase, todo, panicked,
                   invoked, last_load, marked, doomed, released>>

\* KotoReceiver::receive taking the newest event instead of the oldest.
receive_newest(channel) ==
    IF channel = <<>> THEN [some |-> FALSE, value |-> 0, rest |-> <<>>]
    ELSE [some |-> TRUE, value |-> channel[Len(channel)],
          rest |-> SubSeq(channel, 1, Len(channel) - 1)]

\* KotoReceiver::receive: try_recv().ok() on the unbounded channel: None if the
\* channel is empty, the oldest event otherwise.
receive(channel) ==
    IF channel = <<>> THEN [some |-> FALSE, value |-> 0, rest |-> <<>>]
    ELSE [some |-> TRUE, value |-> Head(channel), rest |-> Tail(channel)]

\* KotoEntityMapping::get: every clone of o's mapping reads the one shared cell.
get(cells, o) == cells[o]

\* assign_bevy_entity writing to a copy of the mapping instead of the shared cell.
assign_to_copy(cells, o, entity) == cells

\* KotoEntityMapping::assign_bevy_entity
assign_bevy_entity(cells, o, entity) == [cells EXCEPT ![o] = entity]

\* spawn_shapes reading the events and leaving them on the channel.
RECURSIVE spawn_all_keeps_events(_, _)
spawn_all_keeps_events(w, channel) ==
    LET r == receive(channel)
    IN  IF ~r.some THEN w
        ELSE LET o == r.value
             IN  spawn_all_keeps_events(
                     [commands |-> Append(w.commands, [cmd |-> "spawn", entity |-> o]),
                      cells |-> assign_bevy_entity(w.cells, o, o),
                      asserted |-> (w.asserted /\ w.cells[o] = PLACEHOLDER),
                      channel |-> w.channel],
                     r.rest)

\* spawn_shapes: drains the SpawnShape channel; for each event it queues the
\* spawn of an entity carrying a clone of the event's KotoEntity and assigns
\* the new entity (here: the entity numbered like the object) to the mapping.
RECURSIVE spawn_all(_, _)
spawn_all(w, channel) ==
    LET r == receive(channel)
    IN  IF ~r.some THEN w                         \* while let Some(..) = channel.receive()
        ELSE LET o == r.value
             IN  spawn_all([commands |-> Append(w.commands, [cmd |-> "spawn", entity |-> o]),
                            cells |-> assign_bevy_entity(w.cells, o, o),
                            asserted |-> (w.asserted /\ w.cells[o] = PLACEHOLDER),
                            channel |-> r.rest],
                           r.rest)

spawn_shapes ==
    /\ CanRun("spawn_shapes")
    /\ LET w == spawn_all([commands |-> commands, cells |-> bevy_entity,
                           asserted |-> TRUE, channel |-> spawn_channel], spawn_channel)
       IN  /\ commands' = w.commands
           /\ bevy_entity' = w.cells
           /\ panicked' = ~w.asserted                  \* the debug_assert_eq
           /\ last' = IF w.asserted THEN NoStep
                      ELSE [NoStep EXCEPT !.sys = "spawn_shapes",
                                          !.result = "assert_failed"]
           /\ spawn_channel' = w.channel
    /\ done' = done \cup {"spawn_shapes"}
    /\ UNCHANGED <<family, ghostVars, assetVars, runtimeVars, eventVars, ops_left, next_obj, held, entity_channel,
                   records,
                   phase, todo, invoked, last_load, call_error, update_error, marked, doomed, released>>

\* A first loop that despawns the inactive records only.
NeedsDespawn_inactive_only(koto_entity) == ~koto_entity.is_active

\* update_koto_entities, first loop: the records to despawn.
NeedsDespawn(koto_entity) ==
    ref_count(koto_entity.object) = 1 \/ ~koto_entity.is_active

\* Variants of the second loop's condition: one that does not look at
\* is_active, one that does not look at the reference count.
MayUpdate_any_state(koto_entity) == ref_count(koto_entity.object) > 1

MayUpdate_any_count(koto_entity) == koto_entity.is_active

\* A dispatcher that calls the callbacks only while the runtime is ready.
MayUpdate_when_ready(koto_entity) ==
    is_ready /\ koto_entity.is_active /\ ref_count(koto_entity.object) > 1

\* update_koto_entities, second loop: the records whose on_update may be called.
MayUpdate(koto_entity) ==
    koto_entity.is_active /\ ref_count(koto_entity.object) > 1

DespawnCommands(es) == [i \in DOMAIN es |-> [cmd |-> "despawn", entity |-> es[i]]]

update_koto_entities_first ==
    /\ CanRun("update_koto_entities")
    /\ "first_loop" \notin done
    /\ LET hit == {e \in DOMAIN records : NeedsDespawn(records[e])}
           targets == {get(bevy_entity, records[e].object) : e \in hit}
       IN  /\ commands' = commands \o DespawnCommands(InOrder(targets))
           /\ marked' = marked \cup targets
    /\ todo' = DOMAIN records
    /\ done' = done \cup {"first_loop"}
                    \cup (IF DOMAIN records = {} THEN {"update_koto_entities"} ELSE {})
    /\ last' = NoStep
    /\ UNCHANGED <<family, ghostVars, assetVars, runtimeVars, eventVars, scriptVars, bevy_entity, records, phase,
                   panicked, invoked, last_load, call_error, update_error, doomed, released>>

\* A record without a callback is called as if it had one.
has_callback_always(koto_entity) == TRUE

\* if let Some((on_update, vm)) = koto_entity.on_update.as_mut()
has_callback(koto_entity) == koto_entity.on_update

\* A callback's error handled like that of an exported function: it clears
\* is_ready.
call_on_update_faulting(rt, call_ok) ==
    IF call_ok THEN rt ELSE [rt EXCEPT !.is_ready = FALSE]

\* vm.call_instance_function(instance, on_update, time_delta): an error is
\* logged and nothing else.
call_on_update(rt, call_ok) == rt

\* update_koto_entities, one task of the second loop's par_iter_mut.
update_koto_entities_task ==
    /\ ~panicked
    /\ phase = "PostUpdate"
    /\ \E e \in todo :
          /\ todo' = todo \ {e}
          /\ done' = done \cup (IF todo = {e} THEN {"update_koto_entities"} ELSE {})
          /\ IF MayUpdate(records[e]) /\ has_callback(records[e])
             THEN \E call_ok \in CallbackOutcomes :
                  LET instance == records[e].object
                  IN  /\ ScriptCall
                      /\ is_ready' = call_on_update(Runtime, call_ok).is_ready
                      /\ invoked' = invoked \cup {e}
                      /\ calls' = [calls EXCEPT ![instance] = @ + 1]
                      /\ errored' = IF call_ok THEN errored ELSE errored \cup {e}
             ELSE UNCHANGED <<scriptVars, is_ready, invoked, calls, errored>>
          /\ last' = NoStep
    /\ UNCHANGED <<family, assetVars, marks, user_data, exports, eventVars, worldVars, phase, panicked,
                   last_load, call_error, update_error, marked, doomed, released>>

\* koto_to_bevy_entity_events: drains the entity channel.  The lookup of the
\* event's entity is unwrapped: an entity that is not in the world is a panic.
RECURSIVE entity_events(_, _)
entity_events(w, channel) ==
    LET r == receive(channel)
    IN  IF ~r.some \/ w.panicked THEN w
        ELSE LET event == r.value
                 e == get(bevy_entity, event.entity)
             IN  entity_events(
                     IF e \notin DOMAIN w.records THEN [w EXCEPT !.panicked = TRUE]
                     ELSE IF event.event = "SetOnUpdate"
                     THEN [w EXCEPT !.records[e].on_update = TRUE]
                     ELSE [w EXCEPT !.commands = Append(@, [cmd |-> "despawn", entity |-> e])],
                     r.rest)

koto_to_bevy_entity_events ==
    /\ CanRun("koto_to_bevy_entity_events")
    /\ LET w == entity_events([records |-> records, commands |-> commands,
                               panicked |-> FALSE], entity_channel)
       IN  /\ records' = w.records
           /\ commands' = w.commands
           /\ panicked' = w.panicked
    /\ entity_channel' = <<>>
    /\ done' = done \cup {"koto_to_bevy_entity_events"}
    /\ last' = NoStep
    /\ UNCHANGED <<family, ghostVars, assetVars, runtimeVars, eventVars, ops_left, next_obj, held, spawn_channel,
                   bevy_entity,
                   phase, todo, invoked, last_load, call_error, update_error, marked, doomed, released>>

\* KotoTime::advance: the new current time, clamped to zero.
advance(t, secs) == IF t + secs < 0 THEN 0 ELSE t + secs

\* KotoTime::update: self.delta = time.delta_secs_f64(), then
\* self.advance(self.delta), which ends in set_current_time.
KotoTime_update(time, secs) ==
    LET stored == [time EXCEPT !.delta = secs]
    IN  set_current_time(stored, advance(current_time(stored), stored.delta))

\* update_script_timer: KotoTime::update with the frame's delta of virtual
\* time.
update_script_timer ==
    /\ CanRun("update_script_timer")
    /\ \E secs \in {0, 1} :
          /\ elapsed + secs <= MaxTime
          /\ elapsed' = KotoTime_update(KotoTime, secs).timer
          /\ delta' = KotoTime_update(KotoTime, secs).delta
          /\ last' = IF family = "assets"
                     THEN [NoStep EXCEPT !.sys = "update_script_timer", !.delta_secs = secs]
                     ELSE NoStep
    /\ done' = done \cup {"update_script_timer"}
    /\ UNCHANGED <<family, ghostVars, runtimeVars, eventVars, scriptVars, worldVars, phase,
                   todo, panicked, invoked, last_load, call_error, update_error, marked,
                   doomed, released, dep_channel, dependencies, active_script, asset_hist>>

\* Each clone of the receiver draining a queue of its own.
own_queue(before, rest) == before

\* The clones of a KotoReceiver share one queue: what one of them received
\* is gone for the others.
shared_queue(before, rest) == rest

\* add_script_dependencies: drains the AddDependency channel; a path inside
\* the assets folder is loaded and its handle pushed, any other is logged.
RECURSIVE add_dependencies(_, _)
add_dependencies(w, channel) ==
    LET r == receive(channel)
    IN  IF ~r.some THEN w
        ELSE add_dependencies(
                 [deps |-> IF InAssets(r.value) THEN w.deps \cup {r.value} ELSE w.deps,
                  received |-> w.received + 1,
                  channel |-> r.rest],
                 r.rest)

add_script_dependencies ==
    /\ CanRun("add_script_dependencies")
    /\ LET w == add_dependencies([deps |-> dependencies, received |-> 0,
                                  channel |-> dep_channel], dep_channel)
       IN  /\ dependencies' = w.deps
           /\ dep_channel' = shared_queue(dep_channel, w.channel)
           /\ asset_hist' = [asset_hist EXCEPT !.received = @ + w.received]
    /\ done' = done \cup {"add_script_dependencies"}
    /\ last' = NoStep
    /\ UNCHANGED <<family, ghostVars, runtimeVars, eventVars, scriptVars, worldVars, phase,
                   todo, panicked, invoked, last_load, call_error, update_error, marked,
                   doomed, released, elapsed, delta, active_script>>

\* The AssetEvent<KotoScript> events one frame may bring.
AssetEvents == [kind : {"Added", "Modified", "Removed"}, id : AssetIds]

AssetEventSeqs ==
    UNION {[1..n -> AssetEvents] : n \in 0..MaxAssetEvents}

\* A reload requested for every event about the script or a dependency,
\* whatever the kind of the event.
wants_reload_any_kind(active, deps, event) ==
    /\ active # NoScript
    /\ event.id = active \/ event.id \in deps

\* process_script_asset_events: with an active script, an Added or Modified
\* event whose id is the script's or that of one of its dependencies.
wants_reload(active, deps, event) ==
    /\ active # NoScript
    /\ event.kind \in {"Added", "Modified"}
    /\ event.id = active \/ event.id \in deps

RECURSIVE asset_events_loop(_, _, _, _)
asset_events_loop(queue, active, deps, events) ==
    IF events = <<>> THEN queue
    ELSE asset_events_loop(
             IF wants_reload(active, deps, Head(events))
             THEN Append(queue, LoadScript_reload(active))
             ELSE queue,
             active, deps, Tail(events))

\* process_script_asset_events, in Bevy's Update schedule.
process_script_asset_events ==
    /\ CanRun("process_script_asset_events")
    /\ \E events \in AssetEventSeqs :
          /\ Len(load_script_events) + Len(events) <= LoadQueueBound
          /\ load_script_events' =
                 asset_events_loop(load_script_events, active_script, dependencies, events)
          /\ last' = [NoStep EXCEPT !.sys = "process_script_asset_events",
                                    !.asset_events = events,
                                    !.queued = Len(load_script_events)]
    /\ done' = done \cup {"process_script_asset_events"}
    /\ UNCHANGED <<family, ghostVars, assetVars, runtimeVars, script_loaded, scriptVars,
                   worldVars, phase, todo, panicked, invoked, last_load, call_error,
                   update_error, marked, doomed, released>>

\* What has been created and sent when a phase begins.
PhaseMarks ==
    IF family # "callbacks" THEN marks
    ELSE [obj |-> next_obj,
          events |-> Len(entity_channel),
          frame_obj |-> IF phase = "BevyUpdate" THEN next_obj ELSE marks.frame_obj,
          is_ready |-> is_ready]

\* The systems of the phase have run: the schedule moves on.  Commands are
\* applied at the end of the KotoSchedule and of Bevy's Update schedule, which
\* ends the frame.
advance_phase ==
    /\ ~panicked
    /\ SystemsOf(phase) \subseteq done
    /\ phase = "Compile" => load_script_events = <<>>
    /\ phase' = NextPhase(phase)
    /\ done' = {}
    /\ todo' = {}
    /\ IF phase \in {"PostUpdate", "BevyUpdate"} THEN SyncPoint
       ELSE UNCHANGED <<records, commands>>
    /\ IF phase = "BevyUpdate"
       THEN /\ script_loaded' = 0
            /\ ops_left' = FrameOps
            /\ invoked' = {}
            /\ marked' = {}
            /\ doomed' = {}
            /\ released' = {}
            /\ calls' = NoCalls
            /\ errored' = {}
       ELSE UNCHANGED <<script_loaded, ops_left, invoked, marked, doomed, released,
                        calls, errored>>
    /\ marks' = PhaseMarks
    /\ asset_hist' = IF phase = "BevyUpdate" THEN NoAssetHist ELSE asset_hist
    /\ last' = NoStep
    /\ UNCHANGED <<family, dep_channel, dependencies, active_script, elapsed, delta, runtimeVars, load_script_events, next_obj, held, spawn_channel,
                   entity_channel, bevy_entity, panicked, last_load, call_error,
                   update_error>>

Next ==
    \/ send_load_script
    \/ process_load_script_events
    \/ on_script_loaded
    \/ on_script_compiled
    \/ on_window_resized
    \/ run_script_update
    \/ spawn_shapes
    \/ update_koto_entities_first
    \/ update_koto_entities_task
    \/ koto_to_bevy_entity_events
    \/ advance_phase

Spec == Init /\ [][Next]_vars

\* Scripts of any shape that touch no entity: no record exists, and the second
\* loop of update_koto_entities has nothing to visit.
NextLifecycle ==
    \/ send_load_script
    \/ process_load_script_events
    \/ on_script_loaded
    \/ on_script_compiled
    \/ on_window_resized
    \/ run_script_update
    \/ spawn_shapes
    \/ update_koto_entities_first
    \/ koto_to_bevy_entity_events
    \/ advance_phase

SpecLifecycle == InitLifecycle /\ [][NextLifecycle]_vars

\* One script that compiles and runs, loaded once; its callbacks may raise.
SpecCallbacks == InitCallbacks /\ [][Next]_vars

\* Scripts that import modules and touch no entity, with the script timer and
\* the dependency systems.
NextAssets ==
    \/ NextLifecycle
    \/ update_script_timer
    \/ add_script_dependencies
    \/ process_script_asset_events

SpecAssets == InitAssets /\ [][NextAssets]_vars

\* ================================================================ claims
\* ---------------------------------------------------------------- C1
LoadFailures == {"compile_err", "run_err", "setup_err", "on_load_err"}

\* C1: after a load attempt that fails at any stage (compilation, top-level
\* execution, setup, on_load) is_ready is false, and it stays false for as
\* long as that attempt is the most recent one.
FailedLoadNotReady ==
    /\ (last.sys = "initialize_script" /\ last.result \in LoadFailures
            => last_load = "failed")
    /\ (last_load = "failed" => ~is_ready)

\* A load has just failed in on_load, after setup succeeded, on a runtime that
\* was ready before the attempt.
FailedLoadWhileReady ==
    /\ last.sys = "initialize_script"
    /\ last.result = "on_load_err"
    /\ last.setup_called
    /\ last.was_ready
    /\ ~is_ready

\* ---------------------------------------------------------------- C2
\* C2: is_ready is true only if the most recent load attempt succeeded in
\* full and no run_exported_function call has raised an error since; a faulted
\* runtime is ready again only after a later load attempt, which must succeed.
ReadyMeansLoadedAndUnfaulted ==
    is_ready => last_load = "ok" /\ ~call_error

\* The runtime was loaded with success and an exported function has raised
\* since: it is faulted.
FaultedAfterLoad ==
    /\ last_load = "ok"
    /\ call_error
    /\ ~is_ready

\* ---------------------------------------------------------------- C3
\* C3: update is invoked only in the Update phase of a frame in which the
\* runtime is ready; once update has raised an error the runtime is not ready,
\* so update is not invoked again until a load has succeeded.
UpdateOnlyWhenReady ==
    /\ (last.sys = "run_script_update" /\ last.called
            => last.was_ready /\ phase = "Update")
    /\ (update_error => ~is_ready)

\* run_script_update has just run and skipped update, because an earlier
\* update raised an error and no load has succeeded since.
UpdateSkippedAfterError ==
    /\ last.sys = "run_script_update"
    /\ ~last.called
    /\ update_error
    /\ "update" \in exports

\* ---------------------------------------------------------------- C4
\* C4: a record whose is_active flag is false when update_koto_entities runs
\* does not have its on_update callback invoked in that frame, whatever its
\* reference count and whether or not a callback is registered: every entity
\* whose callback has run in the frame is a record with is_active true.
InactiveNeverUpdated ==
    \A e \in invoked : e \in DOMAIN records /\ records[e].is_active

\* update_koto_entities has finished over an inactive record that has a
\* callback and is still referred to by the script: its callback did not run.
InactiveRecordSkipped ==
    /\ phase = "PostUpdate"
    /\ "update_koto_entities" \in done
    /\ \E e \in DOMAIN records :
          /\ ~records[e].is_active
          /\ records[e].on_update
          /\ ref_count(records[e].object) > 1
          /\ e \notin invoked

\* ---------------------------------------------------------------- C5
\* C5: in one run of update_koto_entities every removal decision is made
\* before any callback is invoked; a record marked for removal in a frame does
\* not have its callback invoked in that frame, and it is gone when the
\* PostUpdate phase is over, so that no later frame visits it.
RemovalDecidedBeforeCallbacks ==
    /\ invoked \cap marked = {}
    /\ (phase = "PostUpdate" /\ invoked # {} => "first_loop" \in done)
    /\ (phase = "BevyUpdate" => marked \cap DOMAIN records = {})

\* update_koto_entities has finished over an active record that has a callback
\* and whose reference count is 1: it is marked, and its callback did not run.
MarkedRecordSkipped ==
    /\ phase = "PostUpdate"
    /\ "update_koto_entities" \in done
    /\ \E e \in marked \cap DOMAIN records :
          /\ records[e].is_active
          /\ records[e].on_update
          /\ e \notin invoked

\* ---------------------------------------------------------------- C6
\* The reference counts of the records have not changed since the frame began:
\* no script operation has run in it and no load has released a reference.
CountsAsAtFrameStart ==
    /\ ops_left = FrameOps
    /\ script_loaded = 0
    /\ released = {}

\* C6: a record whose reference count fell to 1 before a frame began is marked
\* for removal in that frame's Update phase (so it is marked when the
\* PostUpdate phase begins), and it is gone when the PostUpdate phase is over.
RefCountRemovalMarkedInUpdate ==
    /\ (phase = "PostUpdate" /\ done = {} /\ CountsAsAtFrameStart
            => \A e \in DOMAIN records :
                   ref_count(records[e].object) = 1 => e \in marked)
    /\ (phase = "BevyUpdate" => marked \cap DOMAIN records = {})

\* ---------------------------------------------------------------- C7
Removed(o) ==
    /\ bevy_entity[o] # PLACEHOLDER
    /\ bevy_entity[o] \notin DOMAIN records
    /\ Count(commands, [cmd |-> "spawn", entity |-> bevy_entity[o]]) = 0

\* C7: the removal of an entity is requested and applied exactly once,
\* whichever of the triggers occur and in whatever combination: no two despawn
\* commands are queued for one entity, no Despawn event is waiting for an entity
\* that has been removed already, and a removed record is not updated again.
RemovedExactlyOnce ==
    /\ \A o \in Objects : Count(commands, [cmd |-> "despawn", entity |-> o]) <= 1
    /\ \A i \in DOMAIN entity_channel :
          entity_channel[i].event = "Despawn" => ~Removed(entity_channel[i].entity)
    /\ \A o \in Objects : Removed(o) => bevy_entity[o] \notin invoked

\* ---------------------------------------------------------------- C8
\* on_script_loaded has run in the frame, if the frame has got that far.
AfterOnScriptLoaded ==
    \/ phase = "PreUpdate" /\ "on_script_loaded" \in done
    \/ phase \in {"Update", "PostUpdate", "BevyUpdate"}

\* C8: after a load with reset true has succeeded in the Compile phase, every
\* record that existed then is inactive once on_script_loaded has run in the
\* PreUpdate phase of that frame, none of them has its callback invoked, and
\* all of them are gone when the PostUpdate phase is over.
ResetLoadInvalidatesRecords ==
    /\ doomed \cap invoked = {}
    /\ (AfterOnScriptLoaded =>
            \A e \in doomed \cap DOMAIN records : ~records[e].is_active)
    /\ (phase = "BevyUpdate" => doomed \cap DOMAIN records = {})

\* update_koto_entities has finished over a record that existed when a reset
\* load succeeded in this frame, that has a callback and that the script still
\* refers to: it is marked for removal and its callback did not run.
ResetRecordSkipped ==
    /\ phase = "PostUpdate"
    /\ "update_koto_entities" \in done
    /\ \E e \in doomed \cap DOMAIN records :
          /\ records[e].on_update
          /\ ref_count(records[e].object) > 1
          /\ e \in marked
          /\ e \notin invoked

\* ---------------------------------------------------------------- C9
\* C9: a load attempt that fails and a hot reload that succeeds change no
\* is_active flag and cause the removal of no entity: a record is inactive only
\* if it existed when a load with reset true succeeded, and no record whose
\* script reference such a load released is marked for removal.
OnlyResetLoadInvalidates ==
    /\ \A e \in DOMAIN records : ~records[e].is_active => e \in doomed
    /\ (released \ doomed) \cap marked = {}

\* ---------------------------------------------------------------- C10
\* The step is a hot reload (reset false) that succeeds.
HotReloadStep ==
    /\ last'.sys = "initialize_script"
    /\ ~last'.reset
    /\ last'.result = "ok"

HotReloadKeepsUserDataStep ==
    HotReloadStep =>
        /\ ~last'.setup_called
        /\ user_data' = user_data
        /\ ("on_load" \in exports' => last'.on_load_arg = user_data)

\* C10: a hot reload (reset false) that succeeds does not invoke setup, leaves
\* user_data as it was, and passes that same user_data to on_load if the
\* script exports on_load.
HotReloadKeepsUserData == [][HotReloadKeepsUserDataStep]_vars

\* A hot reload has just succeeded on a runtime whose user_data is the value
\* U2 that an earlier fresh load's setup returned; on_load received U2.
HotReloadedWithUserData ==
    /\ last.sys = "initialize_script"
    /\ ~last.reset
    /\ last.result = "ok"
    /\ "setup" \in exports
    /\ user_data = "U2"
    /\ last.on_load_arg = "U2"

\* ---------------------------------------------------------------- C11
\* The last step was a load attempt that got past compilation, the top-level
\* run and, on a fresh load, setup.
LoadReachedOnLoad ==
    /\ last.sys = "initialize_script"
    /\ last.result \in {"ok", "on_load_err"}

\* C11: a load attempt runs in the Compile phase; when its compilation, its
\* top-level run and (on a fresh load) its setup succeed, on_load is invoked
\* if and only if the script exports it, and it receives the user_data that is
\* current once setup has returned, which is the user_data the load leaves
\* behind; a load that fails before that point does not invoke on_load; setup
\* is invoked only on a fresh load.
OnLoadAfterSetup ==
    /\ (last.sys = "initialize_script" =>
            /\ phase = "Compile"
            /\ (last.setup_called => last.reset))
    /\ (LoadReachedOnLoad =>
            /\ ("on_load" \in exports <=> last.on_load_arg # "none")
            /\ (last.on_load_arg # "none" => last.on_load_arg = user_data)
            /\ (last.reset /\ "setup" \in exports => last.setup_called))
    /\ (last.sys = "initialize_script" /\ last.result \in LoadFailures \ {"on_load_err"}
            => last.on_load_arg = "none")

\* A fresh load has just succeeded on a runtime that was ready before: setup
\* ran and returned U2, and on_load received U2.
FreshLoadPassedSetupValue ==
    /\ last.sys = "initialize_script"
    /\ last.reset
    /\ last.was_ready
    /\ last.result = "ok"
    /\ last.setup_called
    /\ last.on_load_arg = "U2"
    /\ user_data = "U2"

\* ---------------------------------------------------------------- C12
\* C12: assign_bevy_entity is called at most once on each bridge: at most one
\* creation event is ever pending for an object, and only while its bridge is
\* still the placeholder, so that the assertion in assign_bevy_entity never
\* fails and a bridge that has been set is never assigned again; the value it
\* holds is the entity that was spawned for its object.
BridgeAssignedOnce ==
    /\ \A o \in Objects :
          /\ Count(spawn_channel, o) <= 1
          /\ (Count(spawn_channel, o) = 1 => bevy_entity[o] = PLACEHOLDER)
          /\ bevy_entity[o] \in {PLACEHOLDER, o}
    /\ ~(last.sys = "spawn_shapes" /\ last.result = "assert_failed")

\* spawn_shapes has run again in a frame after the one that set the bridge of
\* object 1, whose record exists: the bridge still holds entity 1.
BridgeKeptInLaterFrame ==
    /\ phase = "PostUpdate"
    /\ "spawn_shapes" \in done
    /\ 1 \in DOMAIN records
    /\ bevy_entity[1] = 1

\* ---------------------------------------------------------------- C13
\* C13: get() on the mapping of an object, from whichever clone (the script
\* object's, the creation event's, the spawn command's, the record's), returns
\* the placeholder until assign_bevy_entity has run for it and the entity
\* spawned for the object afterwards, and never any other value.
ClonesObserveOneValue ==
    \A o \in Objects :
        /\ get(bevy_entity, o) \in {PLACEHOLDER, o}
        /\ (o >= next_obj \/ Count(spawn_channel, o) > 0
                => get(bevy_entity, o) = PLACEHOLDER)
        /\ (Count(commands, [cmd |-> "spawn", entity |-> o]) > 0 \/ o \in DOMAIN records
                => get(bevy_entity, o) = o)

\* The record of object 1 exists and an event the script sent through its own
\* clone of the mapping is pending: both clones read entity 1.
RecordAndScriptCloneResolved ==
    /\ 1 \in DOMAIN records
    /\ held[1] # "none"
    /\ \E i \in DOMAIN entity_channel : entity_channel[i].entity = 1
    /\ get(bevy_entity, records[1].object) = 1

\* ---------------------------------------------------------------- C14
\* C14: when koto_to_bevy_entity_events is about to drain the entity channel,
\* the bridge of every pending event's target is resolved, whichever script
\* call sent the event (top-level code, update, an on_update callback).
EventTargetsResolved ==
    (phase = "BevyUpdate" /\ "koto_to_bevy_entity_events" \notin done) =>
        \A i \in DOMAIN entity_channel :
            get(bevy_entity, entity_channel[i].entity) # PLACEHOLDER

\* ---------------------------------------------------------------- C15
\* The objects created, and so the creation events sent, in the current phase.
CreatedThisPhase == {o \in Objects : marks.obj <= o /\ o < next_obj}

\* C15: an event sent during a phase is not received in that phase: the
\* creation event of every object created in the current phase is still
\* pending, and no entity event is sent in the phase whose system drains the
\* entity channel.
NoSamePhaseReceipt ==
    /\ \A o \in CreatedThisPhase : Count(spawn_channel, o) = 1
    /\ (phase = "BevyUpdate" => Len(entity_channel) <= marks.events)

\* ---------------------------------------------------------------- C16
\* C16: no event that update() sends in the Update phase is received in that
\* phase: the creation event of every object created there is still pending
\* and the entity channel has lost nothing while the phase lasts; the creation
\* events are received by spawn_shapes in the PostUpdate phase that follows.
UpdateEventsOutliveUpdate ==
    /\ (phase = "Update" =>
            /\ \A o \in CreatedThisPhase : Count(spawn_channel, o) = 1
            /\ Len(entity_channel) >= marks.events)
    /\ (phase = "PostUpdate" /\ "spawn_shapes" \in done =>
            \A o \in Objects : o < marks.obj => Count(spawn_channel, o) = 0)

\* update() has just created an object and sent an entity event in the
\* Update phase: both events are pending.
UpdateSentEvents ==
    /\ phase = "Update"
    /\ last.sys = "run_script_update"
    /\ last.called
    /\ CreatedThisPhase # {}
    /\ Len(entity_channel) > marks.events

\* ---------------------------------------------------------------- C17
\* The objects created in the current frame.
CreatedThisFrame == {o \in Objects : marks.frame_obj <= o /\ o < next_obj}

\* C17: an object that a script call creates in a frame has an unresolved
\* bridge when its constructor returns; the PostUpdate phase of that frame
\* spawns its entity and resolves the bridge, if the script kept a reference;
\* no on_update callback is invoked on it in that frame; from the next frame
\* on the dispatcher invokes the callback registered on it, while its record is
\* eligible.
CreatedEntityLifecycle ==
    /\ (phase \in {"Compile", "PreUpdate", "Update"} =>
            \A o \in CreatedThisFrame : get(bevy_entity, o) = PLACEHOLDER)
    /\ (phase = "BevyUpdate" =>
            \A o \in CreatedThisFrame :
                held[o] # "none" =>
                    get(bevy_entity, o) # PLACEHOLDER /\ o \in DOMAIN records)
    /\ \A o \in CreatedThisFrame : calls[o] = 0
    /\ (phase = "PostUpdate" /\ "update_koto_entities" \in done =>
            \A e \in DOMAIN records :
                (/\ records[e].object \notin CreatedThisFrame
                 /\ has_callback(records[e])
                 /\ MayUpdate(records[e])) => e \in invoked)

\* ---------------------------------------------------------------- C18
\* C18: an error raised by a record's on_update callback leaves is_ready as
\* the PostUpdate phase found it, leaves the record and its callback in
\* place, and keeps no eligible record from having its callback invoked in
\* the same dispatcher run.
CallbackErrorIsolated ==
    /\ (phase = "PostUpdate" => is_ready = marks.is_ready)
    /\ \A e \in errored :
          e \in invoked /\ e \in DOMAIN records /\ has_callback(records[e])
    /\ (phase = "PostUpdate" /\ "update_koto_entities" \in done /\ errored # {} =>
            \A e \in DOMAIN records :
                has_callback(records[e]) /\ MayUpdate(records[e]) => e \in invoked)

\* The dispatcher has finished over two records: the callback of entity 1
\* raised an error, the callback of entity 2 was invoked and returned, and
\* the runtime is still ready.
SiblingInvokedDespiteError ==
    /\ phase = "PostUpdate"
    /\ "update_koto_entities" \in done
    /\ errored = {1}
    /\ invoked = {1, 2}
    /\ is_ready

\* ---------------------------------------------------------------- C19
\* The entities for which a Despawn event is pending on the entity channel.
DespawnPending ==
    {get(bevy_entity, entity_channel[i].entity) :
        i \in {j \in DOMAIN entity_channel : entity_channel[j].event = "Despawn"}}

\* C19: once a script has called despawn() on an entity's object the record is
\* inactive and its callback is not invoked again: a record for which Bevy's
\* Update has drained a Despawn event has is_active false, and a dispatcher
\* run that starts while the Despawn event of a record is pending does not
\* find that record eligible.
DespawnDeactivates ==
    /\ (phase = "BevyUpdate" =>
            \A e \in DOMAIN records :
                Count(commands, [cmd |-> "despawn", entity |-> e]) > 0
                    => ~records[e].is_active)
    /\ (phase = "PostUpdate" /\ "first_loop" \notin done =>
            \A e \in DespawnPending \cap DOMAIN records :
                ~(has_callback(records[e]) /\ MayUpdate(records[e])))

\* ---------------------------------------------------------------- C20
\* C20: when the dispatcher has finished, every record that is active, has a
\* reference count above 1 and has a callback has had it invoked, once, with
\* the record's own object as receiver; no receiver is called more than once
\* in a frame, and only as the object of an invoked record that has a
\* callback; a record without a callback is not invoked.
EachEligibleCalledOnce ==
    /\ (phase = "PostUpdate" /\ "update_koto_entities" \in done =>
            \A e \in DOMAIN records :
                records[e].on_update /\ MayUpdate(records[e])
                    => e \in invoked /\ calls[records[e].object] = 1)
    /\ \A o \in Objects :
          /\ calls[o] <= 1
          /\ (calls[o] = 1 =>
                \E e \in invoked \cap DOMAIN records :
                    records[e].object = o /\ records[e].on_update)
    /\ (phase = "PostUpdate" =>
            \A e \in DOMAIN records :
                ~records[e].on_update => e \notin invoked /\ calls[records[e].object] = 0)

\* The dispatcher has finished over two active records the script refers to:
\* entity 1 has a callback, which was called once on object 1; entity 2 has
\* none and was not called.
CalledOnceAndSiblingSkipped ==
    /\ phase = "PostUpdate"
    /\ "update_koto_entities" \in done
    /\ DOMAIN records = {1, 2}
    /\ records[1].on_update /\ MayUpdate(records[1])
    /\ ~records[2].on_update /\ MayUpdate(records[2])
    /\ invoked = {1}
    /\ calls[1] = 1 /\ calls[2] = 0

\* ---------------------------------------------------------------- C21
\* The spawn commands queued, in the order spawn_shapes queued them.
SpawnOrder ==
    LET idx == {i \in DOMAIN commands : commands[i].cmd = "spawn"}
    IN  [i \in idx |-> commands[i].entity]

\* C21: receive() hands over the events of a channel oldest first and returns
\* None only when the channel is empty: objects are numbered in the order
\* their creation events were sent, the pending creation events and the spawn
\* commands spawn_shapes queued are in that order, and when spawn_shapes has
\* run nothing is pending but the events sent in the phase since.
ReceivedOldestFirst ==
    /\ \A i, j \in DOMAIN spawn_channel :
          i < j => spawn_channel[i] < spawn_channel[j]
    /\ \A i, j \in DOMAIN SpawnOrder : i < j => SpawnOrder[i] < SpawnOrder[j]
    /\ (phase = "PostUpdate" /\ "spawn_shapes" \in done =>
            \A i \in DOMAIN spawn_channel : spawn_channel[i] \in CreatedThisPhase)

\* spawn_shapes has received the creation events of two objects made by one
\* script call and queued their spawns in the order they were sent.
TwoEventsReceivedInOrder ==
    /\ phase = "PostUpdate"
    /\ "spawn_shapes" \in done
    /\ commands = <<[cmd |-> "spawn", entity |-> 1], [cmd |-> "spawn", entity |-> 2]>>
    /\ spawn_channel = <<>>

\* ---------------------------------------------------------------- C22
\* C22: every AddDependency event sent is received exactly once, although
\* add_script_dependencies runs in two schedules on clones of the receiver:
\* the events sent in a frame are those received in it plus those still
\* pending, and none is pending once the second run of the frame is over.
EachDependencyReceivedOnce ==
    /\ asset_hist.sent = asset_hist.received + Len(dep_channel)
    /\ (phase = "BevyUpdate" /\ "add_script_dependencies" \in done =>
            dep_channel = <<>>)

\* Both runs of add_script_dependencies of a frame are over; two events were
\* sent in the frame and two were received.
BothDrainsRan ==
    /\ phase = "BevyUpdate"
    /\ "add_script_dependencies" \in done
    /\ asset_hist.sent = 2
    /\ asset_hist.received = 2

\* ---------------------------------------------------------------- C23
\* The step is a load attempt whose compilation fails.
FailedCompileStep ==
    /\ last'.sys = "initialize_script"
    /\ last'.result = "compile_err"

FailedCompileKeepsScriptStep ==
    FailedCompileStep =>
        /\ exports' = exports
        /\ user_data' = user_data
        /\ held' = held
        /\ ~is_ready'

\* C23: a load attempt, fresh or hot, whose compilation fails leaves the
\* exports table and the user data as they were (and releases no object of
\* the script); is_ready is false afterwards.
FailedCompileKeepsScript == [][FailedCompileKeepsScriptStep]_vars

\* A fresh load has just failed to compile on a ready runtime whose script
\* exported functions and whose setup had returned U2: both are still there.
CompileFailedOnRunningScript ==
    /\ last.sys = "initialize_script"
    /\ last.result = "compile_err"
    /\ last.reset
    /\ last.was_ready
    /\ {"setup", "update"} \subseteq exports
    /\ user_data = "U2"
    /\ ~is_ready

\* ---------------------------------------------------------------- C24
FailedLoadKeepsScriptStep ==
    (last'.sys = "initialize_script" /\ last'.result \in LoadFailures) =>
        /\ exports' = exports
        /\ user_data' = user_data

\* C24: a load attempt that fails at any stage (compilation, top-level run,
\* setup, on_load) leaves the user data and the exports table as they were
\* before the attempt.
FailedLoadKeepsScript == [][FailedLoadKeepsScriptStep]_vars

\* ---------------------------------------------------------------- C25
\* The step is run_script_update on a ready runtime: run_exported_function is
\* called with the name update.
UpdateCallStep ==
    /\ last'.sys = "run_script_update"
    /\ last'.was_ready

ExportedCallOutcomeStep ==
    UpdateCallStep =>
        /\ (last'.called <=> "update" \in exports)
        /\ (~last'.called =>
                last'.result = "none" /\ is_ready' = is_ready /\ user_data' = user_data)
        /\ (last'.called => last'.result \in {"ok", "err"})
        /\ (last'.result = "err" => ~is_ready')
        /\ (last'.result = "ok" => is_ready')
        /\ exports' = exports

\* C25: run_exported_function with a name that is not exported calls nothing
\* and leaves is_ready and the user data as they were; with an exported name
\* whose call raises an error it returns the error and is_ready is false.
ExportedCallOutcome == [][ExportedCallOutcomeStep]_vars

\* run_script_update has just run on a ready runtime whose script does not
\* export update: nothing was called and the runtime is still ready.
MissingUpdateKeepsReady ==
    /\ last.sys = "run_script_update"
    /\ last.was_ready
    /\ ~last.called
    /\ "update" \notin exports
    /\ is_ready
    /\ user_data = "U2"

\* ---------------------------------------------------------------- C26
\* A load succeeded in this frame and add_script_dependencies has drained the
\* channel since.
DrainedAfterLoad ==
    /\ family = "assets"
    /\ asset_hist.loaded
    /\ \/ phase = "PostUpdate" /\ "add_script_dependencies" \in done
       \/ phase = "BevyUpdate"

\* C26: after a successful load and the next drain of the dependency channel
\* the script's dependencies are exactly the modules imported during that
\* load (those that lie in the assets folder, the only ones that have a
\* handle): none left over from another load of the frame, none missing.
DependenciesAreLoadsImports ==
    DrainedAfterLoad =>
        dependencies = {m \in asset_hist.imports : InAssets(m)}

\* ---------------------------------------------------------------- C27
\* The step handles one LoadScript event.
LoadStep ==
    /\ load_script_events # <<>>
    /\ load_script_events' = Tail(load_script_events)

\* The step is a load with reset == true that succeeded.
FreshLoadSucceededStep ==
    /\ LoadStep
    /\ last'.sys = "initialize_script"
    /\ last'.result = "ok"
    /\ last'.reset

ScriptLoadedOncePerFreshLoadStep ==
    IF FreshLoadSucceededStep
    THEN script_loaded' = script_loaded + 1
    ELSE script_loaded' <= script_loaded

\* C27: ScriptLoaded is written exactly once by each load with reset == true
\* that succeeds, and by nothing else: not by a failed load, not by a reload.
ScriptLoadedOncePerFreshLoad == [][ScriptLoadedOncePerFreshLoadStep]_vars

\* A fresh load wrote one ScriptLoaded and a reload that succeeded in the same
\* frame wrote none.
ReloadAfterFreshLoadWroteNone ==
    /\ script_loaded = 1
    /\ last.sys = "initialize_script"
    /\ last.result = "ok"
    /\ ~last.reset

\* ---------------------------------------------------------------- C28
IsPrefix(s, t) == Len(s) <= Len(t) /\ SubSeq(t, 1, Len(s)) = s

\* What one constructor or method call, made in the current state, leaves
\* behind: one event more on one channel, the other channel as it was.
OneEventSent(op) ==
    LET st == ApplyOp(ScriptState, op)
    IN  IF op.op = "create"
        THEN /\ st.spawn_channel = Append(spawn_channel, next_obj)
             /\ st.entity_channel = entity_channel
             \* the object returned still has the placeholder and no record
             /\ bevy_entity[next_obj] = PLACEHOLDER
             /\ \A e \in DOMAIN records : records[e].object # next_obj
        ELSE /\ st.spawn_channel = spawn_channel
             /\ Len(st.entity_channel) = Len(entity_channel) + 1
             /\ IsPrefix(entity_channel, st.entity_channel)
             /\ st.entity_channel[Len(st.entity_channel)].entity = op.obj

FreshLoadWithoutSetup ==
    /\ last.sys = "initialize_script"
    /\ last.reset
    /\ last.result = "ok"
    /\ "setup" \notin exports

\* C29: after a fresh load that succeeds of a script exporting no setup, the
\* user data is a new empty map: not the previous user data, not null; it is
\* what on_load was given if the script exports on_load.
NoSetupGivesEmptyMap ==
    FreshLoadWithoutSetup =>
        /\ user_data = "EmptyMap"
        /\ ~last.setup_called
        /\ last.on_load_arg \in {"none", "EmptyMap"}

\* Such a load has happened on a runtime that was running a script, and its
\* on_load received the empty map.
NoSetupLoadReplacedRunningScript ==
    /\ FreshLoadWithoutSetup
    /\ last.was_ready
    /\ last.on_load_arg = "EmptyMap"
    /\ user_data = "EmptyMap"

\* ---------------------------------------------------------------- C30
KotoTimeResetStep ==
    /\ FreshLoadSucceededStep => elapsed' = 0
    /\ LoadStep /\ ~FreshLoadSucceededStep => elapsed' = elapsed
    /\ elapsed' < elapsed => FreshLoadSucceededStep

\* C30: KotoTime is reset to zero when and only when a load with
\* reset == true succeeds; a failed load and a hot reload leave the elapsed
\* time as it was.
KotoTimeResetOnFreshLoad == [][KotoTimeResetStep]_vars

\* A hot reload has just succeeded while the timer had run: the elapsed time
\* is kept.
ReloadKeptElapsed ==
    /\ last.sys = "initialize_script"
    /\ last.result = "ok"
    /\ ~last.reset
    /\ last.was_ready
    /\ elapsed > 0

\* ---------------------------------------------------------------- C31
\* The phases of a frame in the order the claim gives them, Bevy's Update last.
PhaseOrder == <<"Compile", "PreUpdate", "Update", "PostUpdate", "BevyUpdate">>

PhaseIndex(p) == CHOOSE i \in DOMAIN PhaseOrder : PhaseOrder[i] = p

\* The phase in which each system is registered.
PhaseOfSystem ==
    [on_script_loaded |-> {"PreUpdate"}, on_script_compiled |-> {"PreUpdate"},
     on_window_resized |-> {"PreUpdate"}, update_script_timer |-> {"PreUpdate"},
     run_script_update |-> {"Update"},
     spawn_shapes |-> {"PostUpdate"}, update_koto_entities |-> {"PostUpdate"},
     first_loop |-> {"PostUpdate"},
     add_script_dependencies |-> {"PostUpdate", "BevyUpdate"},
     process_script_asset_events |-> {"BevyUpdate"},
     koto_to_bevy_entity_events |-> {"BevyUpdate"}]

PhasesInOrderStep ==
    \* the schedule moves from a phase to the one that follows it, and only
    \* when every system of the phase has finished and every load is read
    /\ phase' # phase =>
          /\ PhaseIndex(phase') = (PhaseIndex(phase) % Len(PhaseOrder)) + 1
          /\ \A sys \in DOMAIN PhaseOfSystem :
                phase \in PhaseOfSystem[sys] /\ sys \in SystemsOf(phase) => sys \in done
          /\ phase = "Compile" => load_script_events = <<>>
          /\ done' = {}
    \* a system that starts belongs to the phase that is running and has not
    \* run in it before
    /\ phase' = phase =>
          /\ done \subseteq done'
          /\ \A sys \in done' : phase \in PhaseOfSystem[sys]
          \* a step that finishes no system reads a LoadScript event, writes
          \* one, or is one task of the dispatcher's second loop
          /\ done' = done =>
                load_script_events' # load_script_events \/ todo' # todo
    \* loads are read in the Compile phase alone, update is called in Update
    /\ LoadStep => phase = "Compile" /\ phase' = phase
    /\ last'.sys = "run_script_update" => phase = "Update"
    /\ last'.sys = "on_window_size" => phase = "PreUpdate"

\* C31: in every frame the phases run once each in the order Compile,
\* PreUpdate, Update, PostUpdate, before Bevy's Update schedule; no system of
\* a later phase starts before every system of the phase before it has
\* finished, and a system runs once in its phase.
PhasesInOrder == [][PhasesInOrderStep]_vars

\* A frame in which a script was loaded in Compile, the timer was advanced in
\* PreUpdate, update was called in Update, and PostUpdate has run its systems.
FrameReachedPostUpdate ==
    /\ phase = "PostUpdate"
    /\ SystemsOf("PostUpdate") \subseteq done
    /\ "add_script_dependencies" \in done
    /\ script_loaded = 1
    /\ elapsed = 1
    /\ is_ready

\* ---------------------------------------------------------------- C32
\* koto_to_bevy_entity_events is about to drain the entity channel.
AboutToDrain ==
    /\ ~panicked
    /\ phase = "BevyUpdate"
    /\ "koto_to_bevy_entity_events" \notin done

\* C32: whenever an entity event is drained, the entity it targets is still
\* in the world with its record: every pending event whose bridge is resolved
\* names an entity that has a record, so that the unwrap of the lookup does
\* not fail.
DrainedTargetsExist ==
    AboutToDrain =>
        \A i \in DOMAIN entity_channel :
            LET e == get(bevy_entity, entity_channel[i].entity)
            IN  e # PLACEHOLDER => e \in DOMAIN records

\* ---------------------------------------------------------------- C33
\* A fresh load has succeeded in this frame and the KotoSchedule is running.
FreshLoadThisFrame ==
    /\ script_loaded > 0
    /\ phase \in {"Compile", "PreUpdate", "Update", "PostUpdate"}

\* C33: the entities a script creates during the fresh load that succeeds are
\* not invalidated by that load: while the KotoSchedule of the load's frame
\* runs, the invalidation pass included, the only records in the world are
\* those that existed when the load succeeded; the records created afterwards
\* start active, and a record that did not exist when a fresh load succeeded
\* in the frame stays active.
NewScriptEntitiesStayActive ==
    /\ (FreshLoadThisFrame => DOMAIN records \subseteq doomed)
    /\ \A e \in DOMAIN records \ doomed : records[e].is_active

\* A fresh load created an object and kept it; the invalidation pass of the
\* frame has run and the creation event is still queued.
CreatedInLoadSurvivedPass ==
    /\ phase = "PreUpdate"
    /\ done = {"on_script_loaded"}
    /\ script_loaded = 1
    /\ spawn_channel = <<1>>
    /\ held[1] # "none"
    /\ 1 \notin DOMAIN records

\* ---------------------------------------------------------------- C34
\* process_script_asset_events has just read the asset events of the frame.
AssetEventsRead == last.sys = "process_script_asset_events"

\* The events just read that are Added or Modified notifications about the
\* active script or one of its dependencies.
ReloadTriggers ==
    SelectSeq(last.asset_events,
              LAMBDA event :
                  /\ active_script # NoScript
                  /\ event.kind \in {"Added", "Modified"}
                  /\ event.id \in {active_script} \cup dependencies)

\* C34: an asset Added/Modified notification enqueues a LoadScript request if
\* and only if a script is active and the asset is the active script or one
\* of its dependencies; the request is a hot reload (reset == false) of the
\* active script: the events written are one such reload per trigger, behind
\* what was queued before, and nothing else.
AssetEventsEnqueueReloads ==
    AssetEventsRead =>
        /\ Len(load_script_events) = last.queued + Len(ReloadTriggers)
        /\ \A i \in DOMAIN load_script_events :
              i > last.queued =>
                  /\ ~load_script_events[i].reset
                  /\ load_script_events[i].script = active_script

\* A Modified notification for a dependency of the active script has just
\* been read and a reload of the active script was enqueued.
DependencyModifiedEnqueuedReload ==
    /\ AssetEventsRead
    /\ active_script = 3
    /\ dependencies = {1}
    /\ last.asset_events = <<[kind |-> "Modified", id |-> 1]>>
    /\ load_script_events = <<[reset |-> FALSE, script |-> 3]>>

\* ---------------------------------------------------------------- C35
\* The step handles a LoadScript event whose load does not succeed: the asset
\* is missing, or initialize_script returns an error.
FailedLoadStep ==
    /\ LoadStep
    /\ ~(last'.sys = "initialize_script" /\ last'.result = "ok")

\* The step handles a LoadScript event whose load succeeds.
LoadSucceededStep ==
    /\ LoadStep
    /\ last'.sys = "initialize_script"
    /\ last'.result = "ok"

ActiveScriptOnSuccessOnlyStep ==
    /\ FailedLoadStep =>
          active_script' = active_script /\ dependencies' = dependencies
    /\ LoadSucceededStep =>
          active_script' = Head(load_script_events).script /\ dependencies' = {}
    /\ active_script' # active_script => LoadSucceededStep

\* C35: handling a load attempt that fails leaves ActiveScript as it was: the
\* handle is not replaced by that of the script that failed and the
\* dependencies are not cleared; the handle is replaced and the dependencies
\* are cleared only when a load succeeds.
ActiveScriptOnSuccessOnly == [][ActiveScriptOnSuccessOnlyStep]_vars

\* A load that imported a module has just failed while script 3 was running
\* with a dependency: the handle and the dependency are still in place.
FailedLoadKeptActiveScript ==
    /\ last.sys = "initialize_script"
    /\ last.result # "ok"
    /\ last.was_ready
    /\ active_script = 3
    /\ dependencies = {1}
    /\ asset_hist.sent > 0

\* ---------------------------------------------------------------- C36
\* The dispatcher has finished in a frame in which the runtime is not ready.
DispatchedWhileFaulted ==
    /\ phase = "PostUpdate"
    /\ "update_koto_entities" \in done
    /\ ~is_ready

\* C36: the dispatch of the per-entity callbacks does not depend on the
\* runtime's state: while is_ready is false, after a load that failed or an
\* update() that raised an error, every active record with a reference count
\* above 1 and a callback has had its callback invoked when the dispatcher
\* has finished.
FaultedStillDispatches ==
    DispatchedWhileFaulted =>
        \A e \in DOMAIN records :
            (/\ records[e].is_active
             /\ ref_count(records[e].object) > 1
             /\ records[e].on_update) => e \in invoked

\* update() has raised an error in this frame and the dispatcher has invoked
\* the callback of entity 1 all the same.
InvokedAfterUpdateError ==
    /\ DispatchedWhileFaulted
    /\ update_error
    /\ last_load = "ok"
    /\ invoked = {1}
    /\ records[1].is_active

\* ---------------------------------------------------------------- C37
\* The references to object o that the host holds: one per queued creation
\* event, per queued spawn command and per record.
HostReferences(o) ==
    Count(spawn_channel, o)
    + Count(commands, [cmd |-> "spawn", entity |-> o])
    + (IF o \in DOMAIN records THEN 1 ELSE 0)

\* C37: between the runs of the systems the host holds exactly one reference
\* to every object whose creation event is queued or whose entity is spawned
\* or about to be: the event's until spawn_shapes has read it, the record's
\* (first carried by the spawn command) afterwards; so ref_count() is 1
\* exactly when the script holds no reference, and it is never 0.
HostHoldsOneReference ==
    ~panicked =>
        \A o \in Objects :
            /\ HostReferences(o) <= 1
            /\ (HostReferences(o) = 1 =>
                    /\ ref_count(o) >= 1
                    /\ (ref_count(o) = 1 <=> held[o] = "none"))
            /\ (Count(spawn_channel, o) = 1 => get(bevy_entity, o) = PLACEHOLDER)
            /\ (o \in DOMAIN records => get(bevy_entity, o) = o)

\* Before the dispatcher runs: the record of object 1 holds the only
\* reference, the script has dropped its own.
OnlyRecordHoldsObject ==
    /\ phase = "Update"
    /\ 1 \in DOMAIN records
    /\ held[1] = "none"
    /\ spawn_channel = <<>>
    /\ ref_count(1) = 1

\* ---------------------------------------------------------------- C38
\* The dispatcher's first loop has run and none of its callback tasks has.
FirstLoopJustRan ==
    /\ ~panicked
    /\ phase = "PostUpdate"
    /\ "first_loop" \in done
    /\ todo = DOMAIN records

\* The records whose object the script does not hold: reference count 1.
Unretained == {e \in DOMAIN records : ref_count(records[e].object) = 1}

\* C38: an entity whose object the script has not kept, reference count 1
\* when the dispatcher first sees its record, is scheduled for removal in that
\* run and its callback is never invoked: after the first loop every record
\* with reference count 1 has its despawn queued, no record so scheduled is
\* among those invoked, and none is left when the frame's KotoSchedule has
\* ended.
UnretainedRemovedUninvoked ==
    /\ (FirstLoopJustRan =>
            \A e \in Unretained :
                /\ e \in marked
                /\ Count(commands, [cmd |-> "despawn", entity |-> e]) >= 1)
    /\ marked \cap invoked = {}
    /\ (phase = "BevyUpdate" => marked \cap DOMAIN records = {})
    /\ invoked \subseteq DOMAIN records

\* The dispatcher has finished over the record of an object the script
\* dropped: a callback is registered, the despawn is queued, and the callback
\* was not invoked.
UnretainedWithCallbackSkipped ==
    /\ phase = "PostUpdate"
    /\ "update_koto_entities" \in done
    /\ 1 \in Unretained
    /\ records[1].on_update
    /\ records[1].is_active
    /\ 1 \in marked
    /\ invoked = {}

\* ---------------------------------------------------------------- C39
\* A step of update_script_timer.
TimerUpdatedStep == "update_script_timer" \in done' \ done

DeltaIsFrameDeltaStep ==
    /\ TimerUpdatedStep =>
            /\ KotoTime_delta(KotoTime)' = last'.delta_secs
            /\ current_time(KotoTime)' = current_time(KotoTime) + last'.delta_secs
    /\ FreshLoadSucceededStep => KotoTime_delta(KotoTime)' = 0
    /\ ~TimerUpdatedStep /\ KotoTime_delta(KotoTime) = 0 => KotoTime_delta(KotoTime)' = 0

\* C39: after KotoTime::update with a frame delta d, delta() returns d, the
\* time since the previous update, and current_time() has grown by exactly d;
\* after reset(), delta() returns 0 until the next update.
DeltaIsFrameDelta == [][DeltaIsFrameDeltaStep]_vars

\* ---------------------------------------------------------------- C40
\* A step of a window system in which on_window_size was called.
WindowSizeCalledStep ==
    /\ done' \ done \in {{"on_script_compiled"}, {"on_window_resized"}}
    /\ last'.sys = "on_window_size"
    /\ last'.called

\* A step of on_script_compiled that read a ScriptLoaded event while there
\* was a primary window, the runtime was ready and on_window_size exported.
CompiledWithWindowStep ==
    /\ done' \ done = {"on_script_compiled"}
    /\ script_loaded > 0
    /\ last'.window
    /\ is_ready
    /\ "on_window_size" \in exports

OnWindowSizeStep ==
    /\ CompiledWithWindowStep => WindowSizeCalledStep
    /\ WindowSizeCalledStep =>
            /\ phase = "PreUpdate"
            /\ is_ready
            /\ (last'.result = "err" => ~is_ready')
    \* the Update phase follows the PreUpdate phase, with both window systems run
    /\ phase' = "Update" /\ phase # "Update" =>
            /\ phase = "PreUpdate"
            /\ {"on_script_compiled", "on_window_resized"} \subseteq done
    \* nothing in these two phases makes the runtime ready again
    /\ phase \in {"PreUpdate", "Update"} /\ ~is_ready => ~is_ready'
    \* update is called in the Update phase only, and not when the runtime is not ready
    /\ done' \ done = {"run_script_update"} =>
            /\ phase = "Update"
            /\ (~is_ready => ~last'.called)

====
